---- MODULE Spec2Model ----
(***************************************************************************)
(* Model of fetch_data.py: the Flask API of the FPL assistant.             *)
(*                                                                         *)
(* Units.  now_cost, sell_price, bank, cost_change are integers in tenths  *)
(* of a million, as in the code.  ep_next is a Python float parsed from a  *)
(* decimal string of the upstream payload; the model holds it as an        *)
(* integer number of hundredths (2.05 is 205) and models the one float     *)
(* operation whose rounding is visible, "c > cur + 0.1", by what IEEE-754  *)
(* double arithmetic computes (FloatGtPlusTenth).                          *)
(*                                                                         *)
(* Fields that the code only copies from the catalog into the response     *)
(* (team, web_name, image, profile, form, captaincy flags, ...) take no    *)
(* part in any decision and are left out of the records.                   *)
(***************************************************************************)
EXTENDS Integers, Sequences, FiniteSets, TLC

VARIABLES
    bootstrap,     \* the bootstrap-static payload last fetched: [events, elements]
    picks_json,    \* the picks payload last fetched: [entry_history, picks]
    players,       \* build_indexes' dict, as the sequence of its values in insertion order
    bank,          \* estimate_budget_and_squad's bank
    squad,         \* estimate_budget_and_squad's squad (sorted)
    suggestions,   \* find_better_replacements' local list, once sorted
    unique,        \* find_better_replacements' result
    stage,         \* how far the pipeline of my_team_analysis has run
    now,           \* wall clock, in hours
    fetchTimes,    \* the clock at each call of get_bootstrap
    requestTimes,  \* the clock at each /my_team_analysis request carrying a team_id
    lastFetch,     \* what the upstream fetches of the last request did: [catalog, picks]
    response       \* the last HTTP response

vars == <<bootstrap, picks_json, players, bank, squad, suggestions, unique, stage,
          now, fetchTimes, requestTimes, lastFetch, response>>

---------------------------------------------------------------------------
(* Bounds of the model *)

MaxPicks == 3
MaxTime == 1
MaxRequests == 2

(* Program constants *)

Cap == 50

\* The validity window of the specification's Catalog Cache, in hours.
ValidityWindow == 24

---------------------------------------------------------------------------
(* Helpers *)

Front(s) == SubSeq(s, 1, Len(s) - 1)

Last(s) == s[Len(s)]

Range(s) == {s[i] : i \in 1..Len(s)}

RECURSIVE Reverse(_)
Reverse(s) == IF s = <<>> THEN <<>> ELSE Append(Reverse(Tail(s)), Head(s))

RECURSIVE Flatten(_)
Flatten(ss) == IF ss = <<>> THEN <<>> ELSE Head(ss) \o Flatten(Tail(ss))

---------------------------------------------------------------------------
(* Upstream data *)

\* The elements the upstream catalog can hold.  ep_next in hundredths.
Elements ==
    << [id |-> 1,  element_type |-> 2, now_cost |-> 50, ep_next |-> 200, status |-> "a", name |-> "Ann"],
       [id |-> 2,  element_type |-> 2, now_cost |-> 55, ep_next |-> 300, status |-> "a", name |-> "Bob"],
       [id |-> 3,  element_type |-> 2, now_cost |-> 60, ep_next |-> 205, status |-> "d", name |-> "Cyd"],
       [id |-> 4,  element_type |-> 2, now_cost |-> 65, ep_next |-> 300, status |-> "a", name |-> "Bob"],
       [id |-> 5,  element_type |-> 3, now_cost |-> 45, ep_next |-> 70,  status |-> "a", name |-> "Eve"],
       [id |-> 6,  element_type |-> 3, now_cost |-> 45, ep_next |-> 80,  status |-> "a", name |-> "Fay"],
       [id |-> 7,  element_type |-> 2, now_cost |-> 50, ep_next |-> 210, status |-> "a", name |-> "Gus"],
       [id |-> 8,  element_type |-> 2, now_cost |-> 55, ep_next |-> 300, status |-> "a", name |-> "Hal"],
       [id |-> 9,  element_type |-> 7, now_cost |-> 0,  ep_next |-> 250, status |-> "a", name |-> "Ivy"],
       [id |-> 10, element_type |-> 3, now_cost |-> 45, ep_next |-> 300, status |-> "i", name |-> "Jon"] >>

\* The catalog lists its elements in either order.
Catalogs == {Elements, Reverse(Elements)}

\* Entity ids a pick can name: those of the catalog and one the catalog lacks.
PickIds == {e.id : e \in Range(Elements)} \cup {11}

\* f"Unknown {el}"
UnknownName(el) ==
    << "Unknown 1", "Unknown 2", "Unknown 3", "Unknown 4", "Unknown 5", "Unknown 6",
       "Unknown 7", "Unknown 8", "Unknown 9", "Unknown 10", "Unknown 11" >>[el]

\* Picks: up to MaxPicks distinct entity ids, in any order.
PicksLists ==
    {p \in UNION {[1..n -> PickIds] : n \in 0..MaxPicks} :
        \A i, j \in 1..Len(p) : i # j => p[i] # p[j]}

\* entry_history: absent, or carrying a bank (a malformed negative one included).
EntryHistories ==
    {[present |-> FALSE, bank |-> 0]} \cup {[present |-> TRUE, bank |-> b] : b \in {-60, 0, 10}}

\* A catalog large enough for the safety cap: eight defenders of low ep_next
\* and seven of higher ep_next, all of distinct names.
StressNames ==
    << "L1", "L2", "L3", "L4", "L5", "L6", "L7", "L8",
       "H1", "H2", "H3", "H4", "H5", "H6", "H7" >>

StressElements ==
    [i \in 1..15 |->
        [id |-> i, element_type |-> 2, now_cost |-> 40 + (i % 3),
         ep_next |-> IF i <= 8 THEN 100 ELSE 150 + 50 * (i % 4),
         status |-> "a", name |-> StressNames[i]]]

\* The eight low defenders, picked in either order.
StressPicks == {[i \in 1..8 |-> i], [i \in 1..8 |-> 9 - i]}

\* events of the bootstrap payload.
EventLists ==
    { << [id |-> 1, is_current |-> FALSE, is_next |-> TRUE],
         [id |-> 2, is_current |-> FALSE, is_next |-> FALSE] >>,
      << [id |-> 1, is_current |-> FALSE, is_next |-> FALSE],
         [id |-> 2, is_current |-> TRUE,  is_next |-> FALSE],
         [id |-> 3, is_current |-> FALSE, is_next |-> TRUE] >>,
      << [id |-> 1, is_current |-> FALSE, is_next |-> FALSE],
         [id |-> 2, is_current |-> FALSE, is_next |-> FALSE] >> }

---------------------------------------------------------------------------
(* build_indexes *)

POSITION_MAP(t) ==
    CASE t = 1 -> "Goalkeeper"
      [] t = 2 -> "Defender"
      [] t = 3 -> "Midfielder"
      [] t = 4 -> "Forward"
      [] OTHER -> "Unknown"

\* The dict value build_indexes stores for element p.
PlayerRecord(p) ==
    [id |-> p.id,
     name |-> p.name,
     position |-> POSITION_MAP(p.element_type),
     position_sort |-> p.element_type,
     now_cost |-> p.now_cost,
     ep_next |-> p.ep_next,
     status |-> p.status]

\* Index in the dict's insertion order of the entry with key el; 0 when absent.
IndexOf(ps, el) ==
    IF \E i \in 1..Len(ps) : ps[i].id = el
    THEN CHOOSE i \in 1..Len(ps) : ps[i].id = el
    ELSE 0

\* players[p["id"]] = {...}: a new key is appended, a known key keeps its place.
RECURSIVE BuildFrom(_, _)
BuildFrom(elements, acc) ==
    IF elements = <<>> THEN acc
    ELSE LET r == PlayerRecord(Head(elements))
             k == IndexOf(acc, r.id)
         IN  BuildFrom(Tail(elements),
                       IF k = 0 THEN Append(acc, r) ELSE [acc EXCEPT ![k] = r])

build_indexes(b) == BuildFrom(b.elements, <<>>)

---------------------------------------------------------------------------
(* current_or_next_gw; the caller guards events # <<>> (IndexError otherwise) *)

current_or_next_gw(events) ==
    IF \E i \in 1..Len(events) : events[i].is_current
    THEN events[CHOOSE i \in 1..Len(events) :
                    /\ events[i].is_current
                    /\ \A j \in 1..(i - 1) : ~events[j].is_current].id
    ELSE IF \E i \in 1..Len(events) : events[i].is_next
    THEN events[CHOOSE i \in 1..Len(events) :
                    /\ events[i].is_next
                    /\ \A j \in 1..(i - 1) : ~events[j].is_next].id
    ELSE events[1].id

---------------------------------------------------------------------------
(* estimate_budget_and_squad *)

\* int(entry_hist.get("bank") or 0)
EntryBank(pj) == IF pj.entry_history.present THEN pj.entry_history.bank ELSE 0

\* The row appended for a pick of element el.
SquadRow(el, ps) ==
    LET k == IndexOf(ps, el) IN
    IF k = 0
    THEN [element |-> el, name |-> UnknownName(el), position |-> "Unknown",
          position_sort |-> 99, now_cost |-> 0, sell_price |-> 0,
          ep_next |-> 0, status |-> "None"]
    ELSE [element |-> el, name |-> ps[k].name, position |-> ps[k].position,
          position_sort |-> ps[k].position_sort, now_cost |-> ps[k].now_cost,
          sell_price |-> ps[k].now_cost, ep_next |-> ps[k].ep_next,
          status |-> ps[k].status]

\* list.sort is stable: a row goes after every row whose key is <= its own.
RECURSIVE InsertRow(_, _)
InsertRow(sorted, r) ==
    IF sorted = <<>> THEN <<r>>
    ELSE IF Last(sorted).position_sort <= r.position_sort THEN Append(sorted, r)
    ELSE Append(InsertRow(Front(sorted), r), Last(sorted))

RECURSIVE SortRows(_)
SortRows(rows) ==
    IF rows = <<>> THEN <<>> ELSE InsertRow(SortRows(Front(rows)), Last(rows))

\* Mutant: the sort of the squad left out.
SquadUnsorted(rows) == rows

\* squad.sort(key=lambda x: x["position_sort"])
SortSquad(rows) == SortRows(rows)

estimate_budget_and_squad(pj, ps) ==
    [bank |-> EntryBank(pj),
     squad |-> SortSquad([i \in 1..Len(pj.picks) |-> SquadRow(pj.picks[i], ps)])]

---------------------------------------------------------------------------
(* find_better_replacements *)

\* The cur_h in 0..450 (ep_next 0.00 .. 4.50) for which the double sum
\* cur + 0.1 rounds below the double nearest to the decimal cur + 0.10,
\* e.g. 0.7 + 0.1 = 0.7999999999999999 < 0.8.
SumRoundsBelow ==
    {24, 35, 36, 57, 58, 69, 70, 71, 82, 83, 401, 402, 405, 406, 409, 410, 413,
     414, 418, 422, 426, 427, 430, 431, 434, 435, 438, 439, 443, 447}

\* c["ep_next"] > cur_ep + 0.1 on doubles, for values given in hundredths.  A
\* decimal difference other than 0.10 is decided as in the reals; a difference
\* of exactly 0.10 is decided by the rounding of the sum.
FloatGtPlusTenth(c_h, cur_h) ==
    \/ c_h > cur_h + 10
    \/ c_h = cur_h + 10 /\ cur_h \in SumRoundsBelow

\* pool = [p for p in players.values() if p["status"] in ("a", "d") and p["ep_next"] > 0]
Pool(ps) == SelectSeq(ps, LAMBDA p : p.status \in {"a", "d"} /\ p.ep_next > 0)

\* Mutant: the budget clamped at zero.
BudgetClamped(bk, cur) == IF bk + cur.sell_price < 0 THEN 0 ELSE bk + cur.sell_price

\* budget = bank + int(cur.get("sell_price") or 0)
Budget(bk, cur) == bk + cur.sell_price

\* Mutant: the price test left out.
KeepCandidateAnyPrice(c, cur, budget) == FloatGtPlusTenth(c.ep_next, cur.ep_next)

\* Mutant: the margin left out of the upgrade test.
KeepCandidateAnyGain(c, cur, budget) ==
    /\ c.now_cost <= budget
    /\ c.ep_next > cur.ep_next

\* if price <= budget and c["ep_next"] > cur_ep + 0.1
KeepCandidate(c, cur, budget) ==
    /\ c.now_cost <= budget
    /\ FloatGtPlusTenth(c.ep_next, cur.ep_next)

\* The dict appended for squad row cur and candidate c.  round(x, 2) of a
\* difference of two-decimal values is that difference.  "row", the index of
\* cur in the squad, is not a field of the code's dict: it records which row
\* the suggestion was generated for.
Suggestion(cur, row, c, budget) ==
    [out |-> [name |-> cur.name, position |-> cur.position,
              now_cost |-> cur.now_cost, ep_next |-> cur.ep_next],
     in |-> [id |-> c.id, name |-> c.name, position |-> c.position,
             now_cost |-> c.now_cost, ep_next |-> c.ep_next],
     expected_points_gain |-> c.ep_next - cur.ep_next,
     cost_change |-> c.now_cost - cur.sell_price,
     affordable |-> (c.now_cost <= budget),
     row |-> row]

\* The inner loop for one squad row: its same-position candidates, in pool order.
RowSuggestions(cur, row, pool, bk) ==
    LET budget == Budget(bk, cur)
        cands == SelectSeq(pool, LAMBDA p : p.position = cur.position)
        kept == SelectSeq(cands, LAMBDA c : KeepCandidate(c, cur, budget))
    IN  [i \in 1..Len(kept) |-> Suggestion(cur, row, kept[i], budget)]

\* The outer loop: the suggestions in the order they are appended.
Emitted(sq, ps, bk) ==
    LET pool == Pool(ps)
    IN  Flatten([r \in 1..Len(sq) |-> RowSuggestions(sq[r], r, pool, bk)])

\* key(a) <= key(b) for key = (-expected_points_gain, cost_change)
KeyLE(a, b) ==
    \/ a.expected_points_gain > b.expected_points_gain
    \/ /\ a.expected_points_gain = b.expected_points_gain
       /\ a.cost_change <= b.cost_change

RECURSIVE InsertSuggestion(_, _)
InsertSuggestion(sorted, s) ==
    IF sorted = <<>> THEN <<s>>
    ELSE IF KeyLE(Last(sorted), s) THEN Append(sorted, s)
    ELSE Append(InsertSuggestion(Front(sorted), s), Last(sorted))

RECURSIVE SortByKey(_)
SortByKey(ss) ==
    IF ss = <<>> THEN <<>> ELSE InsertSuggestion(SortByKey(Front(ss)), Last(ss))

\* Mutant: the sort of the suggestions left out.
Unsorted(ss) == ss

\* Mutant: a sort that is not stable (equal keys come out in reverse).
SortTiesReversed(ss) == SortByKey(Reverse(ss))

\* suggestions.sort(key=lambda s: (-s["expected_points_gain"], s["cost_change"]))
SortSuggestions(ss) == SortByKey(ss)

DedupKey(s) == <<s.out.name, s.in.name>>

\* The dedup loop from position i on, with its break at the safety cap.
RECURSIVE DedupFrom(_, _, _, _)
DedupFrom(ss, i, seen, uniq) ==
    IF i > Len(ss) THEN uniq
    ELSE IF DedupKey(ss[i]) \in seen THEN DedupFrom(ss, i + 1, seen, uniq)
    ELSE IF Len(uniq) + 1 >= Cap THEN Append(uniq, ss[i])
    ELSE DedupFrom(ss, i + 1, seen \cup {DedupKey(ss[i])}, Append(uniq, ss[i]))

\* Mutant: the cut at the cap without the test of the seen pairs.
CutAtCap(ss) == SubSeq(ss, 1, IF Len(ss) < Cap THEN Len(ss) ELSE Cap)

Deduplicate(ss) == DedupFrom(ss, 1, {}, <<>>)

\* The local list "suggestions" after its sort.
RankedSuggestions(sq, ps, bk) == SortSuggestions(Emitted(sq, ps, bk))

find_better_replacements(sq, ps, bk) == Deduplicate(RankedSuggestions(sq, ps, bk))

---------------------------------------------------------------------------
(* The pipeline of my_team_analysis on given payloads, one call per step *)

Inputs ==
    \/ /\ bootstrap \in [events : EventLists, elements : Catalogs]
       /\ picks_json \in [entry_history : EntryHistories, picks : PicksLists]
    \/ /\ bootstrap \in [events : EventLists,
                          elements : {StressElements, Reverse(StressElements)}]
       /\ picks_json \in [entry_history : {[present |-> TRUE, bank |-> 10]},
                           picks : StressPicks]

\* A response: the HTTP status and the JSON body's keys ("error", or the keys
\* of result; bank_million, round(bank / 10.0, 1), is kept in tenths).
Response(status, body, error, gw, bk, sq, sg) ==
    [status |-> status, body |-> body, error |-> error, gameweek |-> gw,
     bank_tenths_m |-> bk, bank_million |-> bk, squad |-> sq,
     transfer_suggestions |-> sg]

NoResponse == Response(0, "none", "", 0, 0, <<>>, <<>>)

NoFetch == [catalog |-> "none", picks |-> "none"]

InitEngine ==
    /\ Inputs
    /\ players = <<>>
    /\ bank = 0
    /\ squad = <<>>
    /\ suggestions = <<>>
    /\ unique = <<>>
    /\ stage = "fetched"
    /\ now = 0
    /\ fetchTimes = <<>>
    /\ requestTimes = <<>>
    /\ lastFetch = NoFetch
    /\ response = NoResponse

BuildIndexes ==
    /\ stage = "fetched"
    /\ players' = build_indexes(bootstrap)
    /\ stage' = "indexed"
    /\ UNCHANGED <<bootstrap, picks_json, bank, squad, suggestions, unique, now,
                   fetchTimes, requestTimes, lastFetch, response>>

EstimateBudgetAndSquad ==
    /\ stage = "indexed"
    /\ LET r == estimate_budget_and_squad(picks_json, players)
       IN  bank' = r.bank /\ squad' = r.squad
    /\ stage' = "resolved"
    /\ UNCHANGED <<bootstrap, picks_json, players, suggestions, unique, now,
                   fetchTimes, requestTimes, lastFetch, response>>

FindBetterReplacements ==
    /\ stage = "resolved"
    /\ suggestions' = RankedSuggestions(squad, players, bank)
    /\ unique' = find_better_replacements(squad, players, bank)
    /\ stage' = "recommended"
    /\ UNCHANGED <<bootstrap, picks_json, players, bank, squad, now,
                   fetchTimes, requestTimes, lastFetch, response>>

NextEngine == BuildIndexes \/ EstimateBudgetAndSquad \/ FindBetterReplacements

SpecEngine == InitEngine /\ [][NextEngine]_vars

---------------------------------------------------------------------------
(* The Flask application: its routes, the upstream and the clock *)

\* What get_bootstrap can return to a request: the catalog with any of the
\* event lists, or with no events at all (a malformed payload).
BootstrapReplies == [events : EventLists \cup {<<>>}, elements : {Elements}]

\* What fetch_picks can return to a request.
PicksReplies ==
    [entry_history : {[present |-> FALSE, bank |-> 0], [present |-> TRUE, bank |-> 10]},
     picks : {<<>>, <<1>>, <<11>>, <<5, 1>>}]

EmptyBootstrap == [events |-> <<>>, elements |-> <<>>]

EmptyPicks == [entry_history |-> [present |-> FALSE, bank |-> 0], picks |-> <<>>]

InitServer ==
    /\ bootstrap = EmptyBootstrap
    /\ picks_json = EmptyPicks
    /\ players = <<>>
    /\ bank = 0
    /\ squad = <<>>
    /\ suggestions = <<>>
    /\ unique = <<>>
    /\ stage = "idle"
    /\ now = 0
    /\ fetchTimes = <<>>
    /\ requestTimes = <<>>
    /\ lastFetch = NoFetch
    /\ response = NoResponse

\* Mutant: the specification's get_snapshot, which fetches only when no
\* snapshot is held or the held one is a validity window old.
get_snapshot(log, t) ==
    IF log = <<>> \/ t - Last(log) >= ValidityWindow THEN Append(log, t) ELSE log

\* get_bootstrap issues one upstream request per call: the model logs its time.
get_bootstrap(log, t) == Append(log, t)

\* return jsonify({"error": "No team ID provided"}), 400
MissingTeamId == Response(400, "error", "No team ID provided", 0, 0, <<>>, <<>>)

\* Mutant: a failed fetch answered as a success without suggestions.
EmptySuccess == Response(200, "analysis", "", 0, 0, <<>>, <<>>)

\* except requests.RequestException: 502
OnRequestException == Response(502, "error", "Failed to fetch data", 0, 0, <<>>, <<>>)

\* except Exception: 500
OnException == Response(500, "error", "Unexpected error", 0, 0, <<>>, <<>>)

\* The locals of a request that got no further than its point of failure.
Abandon(b, ps) ==
    /\ bootstrap' = b
    /\ players' = ps
    /\ picks_json' = EmptyPicks
    /\ bank' = 0
    /\ squad' = <<>>
    /\ suggestions' = <<>>
    /\ unique' = <<>>
    /\ stage' = "failed"

\* GET /
Index ==
    /\ response' = Response(200, "index.html", "", 0, 0, <<>>, <<>>)
    /\ lastFetch' = NoFetch
    /\ UNCHANGED <<bootstrap, picks_json, players, bank, squad, suggestions, unique, stage,
                   now, fetchTimes, requestTimes>>

\* GET /healthz
Healthz ==
    /\ response' = Response(200, "health", "", 0, 0, <<>>, <<>>)
    /\ lastFetch' = NoFetch
    /\ UNCHANGED <<bootstrap, picks_json, players, bank, squad, suggestions, unique, stage,
                   now, fetchTimes, requestTimes>>

\* GET /my_team_analysis without team_id
AnalysisNoTeamId ==
    /\ response' = MissingTeamId
    /\ lastFetch' = NoFetch
    /\ UNCHANGED <<bootstrap, picks_json, players, bank, squad, suggestions, unique, stage,
                   now, fetchTimes, requestTimes>>

\* GET /my_team_analysis?team_id=...: get_bootstrap raises RequestException
AnalysisCatalogFails ==
    /\ Len(requestTimes) < MaxRequests
    /\ requestTimes' = Append(requestTimes, now)
    /\ fetchTimes' = get_bootstrap(fetchTimes, now)
    /\ lastFetch' = [catalog |-> "failed", picks |-> "none"]
    /\ Abandon(EmptyBootstrap, <<>>)
    /\ response' = OnRequestException
    /\ UNCHANGED now

\* ... the catalog arrives with no events: current_or_next_gw raises IndexError
AnalysisNoEvents ==
    /\ Len(requestTimes) < MaxRequests
    /\ requestTimes' = Append(requestTimes, now)
    /\ fetchTimes' = get_bootstrap(fetchTimes, now)
    /\ \E b \in BootstrapReplies :
          /\ b.events = <<>>
          /\ Abandon(b, build_indexes(b))
    /\ lastFetch' = [catalog |-> "ok", picks |-> "none"]
    /\ response' = OnException
    /\ UNCHANGED now

\* ... the catalog arrives, fetch_picks raises RequestException
AnalysisPicksFail ==
    /\ Len(requestTimes) < MaxRequests
    /\ requestTimes' = Append(requestTimes, now)
    /\ fetchTimes' = get_bootstrap(fetchTimes, now)
    /\ \E b \in BootstrapReplies :
          /\ b.events # <<>>
          /\ Abandon(b, build_indexes(b))
    /\ lastFetch' = [catalog |-> "ok", picks |-> "failed"]
    /\ response' = OnRequestException
    /\ UNCHANGED now

\* ... both payloads arrive: the squad, the suggestions and the result
AnalysisOk ==
    /\ Len(requestTimes) < MaxRequests
    /\ requestTimes' = Append(requestTimes, now)
    /\ fetchTimes' = get_bootstrap(fetchTimes, now)
    /\ \E b \in BootstrapReplies, pj \in PicksReplies :
          /\ b.events # <<>>
          /\ LET ps == build_indexes(b)
                 gw == current_or_next_gw(b.events)
                 r  == estimate_budget_and_squad(pj, ps)
                 rk == RankedSuggestions(r.squad, ps, r.bank)
                 sg == find_better_replacements(r.squad, ps, r.bank)
             IN  /\ bootstrap' = b
                 /\ players' = ps
                 /\ picks_json' = pj
                 /\ bank' = r.bank
                 /\ squad' = r.squad
                 /\ suggestions' = rk
                 /\ unique' = sg
                 /\ response' = Response(200, "analysis", "", gw, r.bank, r.squad, sg)
    /\ stage' = "recommended"
    /\ lastFetch' = [catalog |-> "ok", picks |-> "ok"]
    /\ UNCHANGED now

\* An hour passes.
Tick ==
    /\ now < MaxTime
    /\ now' = now + 1
    /\ UNCHANGED <<bootstrap, picks_json, players, bank, squad, suggestions, unique, stage,
                   fetchTimes, requestTimes, lastFetch, response>>

Next ==
    \/ Index
    \/ Healthz
    \/ AnalysisNoTeamId
    \/ AnalysisCatalogFails
    \/ AnalysisNoEvents
    \/ AnalysisPicksFail
    \/ AnalysisOk
    \/ Tick

Spec == InitServer /\ [][Next]_vars

---------------------------------------------------------------------------
(* Properties *)

Recommended == stage = "recommended"

\* The squad row a suggestion was generated for.
OutRow(s) == squad[s.row]

\* The same-position pool entries of squad row r, as indexes into players.
SamePositionPool(r) ==
    {k \in 1..Len(players) :
        /\ players[k].status \in {"a", "d"}
        /\ players[k].ep_next > 0
        /\ players[k].position = squad[r].position}

\* Row r was paired with the catalog entry k in the sorted local list.
Paired(r, k) ==
    \E i \in 1..Len(suggestions) :
        suggestions[i].row = r /\ suggestions[i].in.id = players[k].id

\* C1 (budget invariant): every returned suggestion's incoming cost is at most
\* the bank plus the sell price of the squad row it was generated for.
C1_BudgetInvariant ==
    Recommended =>
        \A i \in 1..Len(unique) :
            unique[i].in.now_cost <= bank + OutRow(unique[i]).sell_price

\* A suggestion was returned for a row for which another same-position
\* candidate, better by the margin, was out of budget.
C1_Witness ==
    /\ Recommended
    /\ \E i \in 1..Len(unique) :
          \E k \in SamePositionPool(unique[i].row) :
              /\ FloatGtPlusTenth(players[k].ep_next, OutRow(unique[i]).ep_next)
              /\ players[k].now_cost > bank + OutRow(unique[i]).sell_price

Ranked(ss) ==
    \A i, j \in 1..Len(ss) :
        i < j =>
            \/ ss[i].expected_points_gain > ss[j].expected_points_gain
            \/ /\ ss[i].expected_points_gain = ss[j].expected_points_gain
               /\ ss[i].cost_change <= ss[j].cost_change

\* C2 (ranking invariant): in the sorted list and in the returned list, an
\* earlier suggestion has a larger gain than a later one, or the same gain and
\* a cost change that is no larger.
C2_RankingInvariant == Recommended => Ranked(suggestions) /\ Ranked(unique)

\* The returned list was cut at the cap, and the sort moved a later row's
\* suggestion ahead of an earlier row's.
C2_Witness ==
    /\ Recommended
    /\ Len(suggestions) > Cap
    /\ Len(unique) = Cap
    /\ \E i, j \in 1..Len(unique) : i < j /\ unique[i].row > unique[j].row

\* C3 (same-position upgrade beyond the margin): every returned suggestion
\* pairs equal positions and has in.ep_next > out.ep_next + 0.1, the comparison
\* being the one Python makes on the two floats; a same-position pool entry that
\* fails that comparison is never paired with the row; and an affordable
\* same-position pool entry with gain 1.0 is paired with it, and its pair of
\* names is returned unless the cap cut the list.
C3_UpgradeBeyondMargin ==
    Recommended =>
        /\ \A i \in 1..Len(unique) :
              /\ unique[i].in.position = unique[i].out.position
              /\ FloatGtPlusTenth(unique[i].in.ep_next, unique[i].out.ep_next)
        /\ \A r \in 1..Len(squad) : \A k \in SamePositionPool(r) :
              /\ ~FloatGtPlusTenth(players[k].ep_next, squad[r].ep_next)
                    => ~Paired(r, k)
              /\ ( /\ players[k].ep_next - squad[r].ep_next = 100
                   /\ players[k].now_cost <= bank + squad[r].sell_price )
                    => /\ Paired(r, k)
                       /\ Len(unique) < Cap =>
                             \E i \in 1..Len(unique) :
                                 DedupKey(unique[i]) = <<squad[r].name, players[k].name>>

\* The scenario of the specification: the row of ep_next 2.00 and sell price 50
\* with bank 10 gets the candidate of cost 55 and ep_next 3.00 and not the one
\* of ep_next 2.05.
C3_Witness ==
    /\ Recommended
    /\ bank = 10
    /\ \E r \in 1..Len(squad) :
          /\ squad[r].ep_next = 200 /\ squad[r].sell_price = 50
          /\ \E i \in 1..Len(unique) :
                /\ unique[i].row = r
                /\ unique[i].in.now_cost = 55
                /\ unique[i].expected_points_gain = 100
          /\ \E k \in SamePositionPool(r) :
                players[k].ep_next = 205 /\ ~Paired(r, k)

\* The first position in the sorted list of the pair of names of ss[i].
FirstOfKey(i) ==
    CHOOSE f \in 1..Len(suggestions) :
        /\ DedupKey(suggestions[f]) = DedupKey(suggestions[i])
        /\ \A g \in 1..(f - 1) : DedupKey(suggestions[g]) # DedupKey(suggestions[i])

\* C4 (dedup invariant): no two returned suggestions share (out.name, in.name),
\* and the one returned for a pair is the first of that pair in the sorted list.
C4_DedupInvariant ==
    Recommended =>
        /\ \A i, j \in 1..Len(unique) :
              i # j => DedupKey(unique[i]) # DedupKey(unique[j])
        /\ \A i \in 1..Len(unique) :
              \E f \in 1..Len(suggestions) :
                  /\ suggestions[f] = unique[i]
                  /\ f = FirstOfKey(f)

\* Two suggestions of one pair of names and different incoming entities were
\* sorted, and one of them was dropped.
C4_Witness ==
    /\ Recommended
    /\ \E f, g \in 1..Len(suggestions) :
          /\ f < g
          /\ DedupKey(suggestions[f]) = DedupKey(suggestions[g])
          /\ suggestions[f].in.id # suggestions[g].in.id
          /\ \E i \in 1..Len(unique) : unique[i] = suggestions[f]
          /\ \A i \in 1..Len(unique) : unique[i] # suggestions[g]

\* C5, as stated (a request within the validity window of an earlier fetch is
\* served without an upstream catalog fetch): no two calls of get_bootstrap
\* lie less than the window apart.
C5_ServedFromSnapshot ==
    \A i, j \in 1..Len(fetchTimes) :
        i < j => fetchTimes[j] - fetchTimes[i] >= ValidityWindow

\* C5, amended: no snapshot is held between requests; every request that
\* carries a team_id calls get_bootstrap once, at the time of the request.
C5_FetchPerRequest == fetchTimes = requestTimes

\* Two requests less than a validity window apart, and two catalog fetches.
C5_Witness ==
    /\ Len(requestTimes) = 2
    /\ requestTimes[2] - requestTimes[1] < ValidityWindow
    /\ Len(fetchTimes) = 2

\* C6 (failure is distinguishable): a request whose catalog or picks fetch
\* failed answers with an error and never with a success; a request whose
\* fetches succeeded on an empty list of picks answers 200 with no error and an
\* empty list of suggestions.
C6_FailureDistinguishable ==
    /\ (lastFetch.catalog = "failed" \/ lastFetch.picks = "failed")
        => /\ response.status # 200
           /\ response.error # ""
           /\ response.body = "error"
    /\ (lastFetch = [catalog |-> "ok", picks |-> "ok"] /\ picks_json.picks = <<>>)
        => /\ response.status = 200
           /\ response.error = ""
           /\ response.body = "analysis"
           /\ response.squad = <<>>
           /\ response.transfer_suggestions = <<>>

\* The picks fetch of a request failed after its catalog fetch succeeded, and
\* the request was answered 502.
C6_Witness ==
    /\ lastFetch = [catalog |-> "ok", picks |-> "failed"]
    /\ response.status = 502
    /\ response.error # ""

\* The same-position pool entries that budget b would keep for row r.
KeptUnder(r, b) ==
    {k \in SamePositionPool(r) :
        /\ players[k].now_cost <= b
        /\ FloatGtPlusTenth(players[k].ep_next, squad[r].ep_next)}

PairedWith(r) == {k \in 1..Len(players) : Paired(r, k)}

NegativeBudget(r) == bank + squad[r].sell_price < 0

\* C7, as stated (negative budget clamp): for a row whose bank + sell_price is
\* negative, the kept candidates are those a budget of zero would keep.
C7_ClampedToZero ==
    Recommended =>
        \A r \in 1..Len(squad) :
            NegativeBudget(r) => PairedWith(r) = KeptUnder(r, 0)

\* C7, amended: the negative budget is used as it is; the kept candidates are
\* those whose cost is at most bank + sell_price, so none of cost 0 or more.
C7_NegativeBudgetUnclamped ==
    Recommended =>
        \A r \in 1..Len(squad) :
            NegativeBudget(r) =>
                /\ PairedWith(r) = KeptUnder(r, bank + squad[r].sell_price)
                /\ \A k \in PairedWith(r) : players[k].now_cost < 0

\* A row of negative budget with a free same-position candidate that is better
\* by the margin.
C7_Witness ==
    /\ Recommended
    /\ \E r \in 1..Len(squad) :
          /\ NegativeBudget(r)
          /\ \E k \in SamePositionPool(r) :
                /\ players[k].now_cost = 0
                /\ FloatGtPlusTenth(players[k].ep_next, squad[r].ep_next)

Tied(a, b) ==
    /\ a.expected_points_gain = b.expected_points_gain
    /\ a.cost_change = b.cost_change

Resolved == stage \in {"resolved", "recommended"}

IsPlaceholder(row) == IndexOf(players, row.element) = 0

\* Keeper < Defender < Midfielder < Forward, then the catalog rows of an
\* unmapped type code, then the placeholders.
PositionRank(row) ==
    IF IsPlaceholder(row) THEN 5
    ELSE CASE row.position = "Goalkeeper" -> 0
           [] row.position = "Defender" -> 1
           [] row.position = "Midfielder" -> 2
           [] row.position = "Forward" -> 3
           [] OTHER -> 4

\* The position in the picks of the pick a row was made from.
PickIndex(row) == CHOOSE i \in 1..Len(picks_json.picks) : picks_json.picks[i] = row.element

\* C9 (squad resolution): one row per pick, a pick absent from the catalog
\* giving the row named "Unknown <id>" of position "Unknown"; the rows are in
\* the order of their position rank, placeholders last, and rows of one rank
\* are in the order of their picks.
C9_SquadResolution ==
    Resolved =>
        /\ Len(squad) = Len(picks_json.picks)
        /\ \A i \in 1..Len(picks_json.picks) :
              \E k \in 1..Len(squad) :
                  /\ squad[k].element = picks_json.picks[i]
                  /\ \A l \in 1..Len(squad) : squad[l].element = squad[k].element => l = k
        /\ \A k \in 1..Len(squad) :
              IsPlaceholder(squad[k]) =>
                  /\ squad[k].name = UnknownName(squad[k].element)
                  /\ squad[k].position = "Unknown"
        /\ \A k, l \in 1..Len(squad) :
              k < l =>
                  /\ PositionRank(squad[k]) <= PositionRank(squad[l])
                  /\ PositionRank(squad[k]) = PositionRank(squad[l])
                        => PickIndex(squad[k]) < PickIndex(squad[l])

\* A pick absent from the catalog came before a pick of the catalog, and its
\* placeholder row was put after that pick's row.
C9_Witness ==
    /\ Resolved
    /\ \E k, l \in 1..Len(squad) :
          /\ k < l
          /\ IsPlaceholder(squad[l])
          /\ ~IsPlaceholder(squad[k])
          /\ PickIndex(squad[l]) < PickIndex(squad[k])

\* C10 (no incoming entity is already selected): the incoming entity of a
\* returned suggestion is the entity of no row of the squad.
C10_IncomingNotSelected ==
    Recommended =>
        \A i \in 1..Len(unique) : \A r \in 1..Len(squad) :
            unique[i].in.id # squad[r].element

====
